---- MODULE Spec2Model ----
(***************************************************************************)
(* Model of ramble's application directive language                        *)
(* (lib/ramble/ramble/language/application_language.py).                   *)
(*                                                                         *)
(* A directive call made in a class body returns a closure (a "builder     *)
(* step").  Constructing an application instance executes the steps, in    *)
(* order, against the instance; each step mutates one of the instance's    *)
(* dictionaries.  A step that raises DirectiveError ends the composition.  *)
(*                                                                         *)
(* The instance is modelled by its six dictionaries.  One action models    *)
(* the execution of one closure, arguments drawn from small sets.          *)
(***************************************************************************)
EXTENDS Naturals, Sequences, FiniteSets

VARIABLES
    workloads,              \* app.workloads: name -> record
    executables,            \* app.executables: name -> CommandExecutable
    inputs,                 \* app.inputs: name -> record
    workload_variables,     \* app.workload_variables: workload -> name -> record
    environment_variables,  \* app.environment_variables: workload -> name -> record
    phase_definitions,      \* app.phase_definitions: pipeline -> phase -> list
    status,                 \* "composing", or "failed" once a closure has raised
    executed,               \* the steps executed so far, in execution order
    steps,                  \* the builder steps created so far; a step's identity
                            \* is its index, its value the directive call it is of
    directives_to_be_executed, \* ApplicationMeta._directives_to_be_executed: the
                            \* steps of the class body being read, as identities
    types,                  \* the application types defined so far
    instance_of,            \* the type this instance is constructed from; 0 when
                            \* its steps are given directly
    peer                    \* a second instance under construction

\* The type level and the second instance.
typeVars == <<steps, directives_to_be_executed, types, instance_of, peer>>

vars == <<workloads, executables, inputs, workload_variables,
          environment_variables, phase_definitions, status, executed,
          steps, directives_to_be_executed, types, instance_of, peer>>

\* Number of builder steps a composition executes at most.
MaxSteps == 3

-----------------------------------------------------------------------------
(* Python values passed to the directives.  A value carries its type, so   *)
(* that isinstance() and truthiness are computed and not assumed.          *)

PyNone == [kind |-> "none", items |-> <<>>]
PyStr(s) == [kind |-> "str", items |-> <<s>>]
PyList(xs) == [kind |-> "list", items |-> xs]
PyTuple(xs) == [kind |-> "tuple", items |-> xs]

\* bool(v)
Truthy(v) ==
    CASE v.kind = "none" -> FALSE
      [] v.kind = "str" -> v.items[1] # ""
      [] OTHER -> v.items # <<>>

\* x in xs, for a list xs
InList(x, xs) == \E i \in 1..Len(xs) : xs[i] = x

\* Dictionaries are functions with a finite domain.
EmptyDict == <<>>
Put(d, k, v) == [x \in (DOMAIN d) \cup {k} |-> IF x = k THEN v ELSE d[x]]

-----------------------------------------------------------------------------
(* register_phase                                                          *)

\* app._pipelines, defined by the application base class.
RecognizedPipelines == {"setup", "analyze"}

\* The dictionary key a pipeline argument is used as.
PipelineKey(pipeline) == IF pipeline.kind = "str" THEN pipeline.items[1] ELSE "None"

\* pipeline not in app._pipelines
InvalidPipelineMutant(pipeline) ==
    pipeline.kind = "str" /\ pipeline.items[1] \notin RecognizedPipelines
InvalidPipeline(pipeline) ==
    ~(pipeline.kind = "str" /\ pipeline.items[1] \in RecognizedPipelines)

\* not isinstance(depends_on, list)
IsNotListMutant(depends_on) == depends_on.kind \notin {"list", "tuple", "str"}
IsNotList(depends_on) == depends_on.kind # "list"

\* One iteration of the loop body: append dep unless it is already there.
AddDepMutant(deps, dep) == Append(deps, dep)
AddDep(deps, dep) == IF InList(dep, deps) THEN deps ELSE Append(deps, dep)

\* for dep in depends_on: ...
RECURSIVE AddDepsMutant(_, _)
AddDepsMutant(deps, new) ==
    IF new = <<>> THEN deps
    ELSE AddDepsMutant(IF InList(Head(new), deps) THEN deps ELSE <<Head(new)>> \o deps,
                       Tail(new))
RECURSIVE AddDeps(_, _)
AddDeps(deps, new) ==
    IF new = <<>> THEN deps
    ELSE AddDeps(AddDep(deps, Head(new)), Tail(new))

\* phase_definitions[pipeline][name] after the two "create if absent" steps
PhaseDepsMutant(defs, pl, name) == <<>>
PhaseDeps(defs, pl, name) ==
    IF pl \in DOMAIN defs /\ name \in DOMAIN defs[pl] THEN defs[pl][name] ELSE <<>>

\* The dictionary after a registration that passed both validations.
RegisterInto(defs, pl, name, depends_on) ==
    LET phases == IF pl \in DOMAIN defs THEN defs[pl] ELSE EmptyDict
    IN  Put(defs, pl, Put(phases, name, AddDeps(PhaseDeps(defs, pl, name), depends_on.items)))

RegisterPhaseStep(name, pipeline, depends_on, ok) ==
    [directive |-> "register_phase", name |-> name, pipeline |-> pipeline,
     depends_on |-> depends_on, ok |-> ok]

ExecuteRegisterPhase(name, pipeline, depends_on) ==
    /\ status = "composing"
    /\ Len(executed) < MaxSteps
    /\ IF InvalidPipeline(pipeline) \/ IsNotList(depends_on)
       THEN /\ status' = "failed"
            /\ phase_definitions' = phase_definitions
            /\ executed' = Append(executed, RegisterPhaseStep(name, pipeline, depends_on, FALSE))
       ELSE /\ status' = status
            /\ phase_definitions' =
                   RegisterInto(phase_definitions, PipelineKey(pipeline), name, depends_on)
            /\ executed' = Append(executed, RegisterPhaseStep(name, pipeline, depends_on, TRUE))
    /\ UNCHANGED <<workloads, executables, inputs, workload_variables, environment_variables>>
    /\ UNCHANGED typeVars

-----------------------------------------------------------------------------
(* ramble.language.language_helpers: the two helpers that resolve a         *)
(* singular/plural pair of arguments.                                       *)

\* An argument was supplied: it is not the default None.
Given(v) == v.kind # "none"

\* The names an argument stands for; a bare string is one name.
AsNames(v) == IF Given(v) THEN v.items ELSE <<>>

\* s with repeated names removed, first occurrence kept.
RECURSIVE Unique(_)
Unique(s) ==
    IF s = <<>> THEN <<>>
    ELSE LET front == Unique(SubSeq(s, 1, Len(s) - 1))
         IN  IF InList(s[Len(s)], front) THEN front ELSE Append(front, s[Len(s)])

\* merge_definitions(single_type, multiple_type): never fails.
merge_definitions(single, multiple) == Unique(AsNames(single) \o AsNames(multiple))

\* require_definition(single_type, multiple_type, ...): ok is FALSE where the
\* helper raises DirectiveError.
require_definition(single, multiple) ==
    [ok  |-> /\ Given(single) # Given(multiple)
             /\ merge_definitions(single, multiple) # <<>>,
     val |-> merge_definitions(single, multiple)]

-----------------------------------------------------------------------------
(* workload                                                                *)

\* The record line 73 stores under the name before anything else happens.
WorkloadBaseMutant(ws, name) ==
    IF name \in DOMAIN ws THEN ws[name]
    ELSE [executables |-> <<>>, inputs |-> <<>>, tags |-> <<>>]
WorkloadBase(ws, name) == [executables |-> <<>>, inputs |-> <<>>, tags |-> <<>>]

\* all_execs = require_definition(executable, executables, ...)
WorkloadExecsUnchecked(executable, executables_) ==
    [ok |-> TRUE, val |-> merge_definitions(executable, executables_)]
WorkloadExecsMutant(executable, executables_) ==
    [ok |-> Truthy(executable) \/ Truthy(executables_),
     val |-> merge_definitions(executable, executables_)]
WorkloadExecs(executable, executables_) == require_definition(executable, executables_)

\* all_inputs = merge_definitions(input, inputs)
WorkloadInputs(input, inputs_) == merge_definitions(input, inputs_)

WorkloadStep(name, executables_, executable, input, inputs_, tags, ok) ==
    [directive |-> "workload", name |-> name, executables |-> executables_,
     executable |-> executable, input |-> input, inputs |-> inputs_,
     tags |-> tags, ok |-> ok]

ExecuteWorkload(name, executables_, executable, input, inputs_, tags) ==
    /\ status = "composing"
    /\ Len(executed) < MaxSteps
    /\ LET base == WorkloadBase(workloads, name)
           all_execs == WorkloadExecs(executable, executables_)
       IN  IF ~all_execs.ok
           THEN /\ status' = "failed"
                /\ workloads' = Put(workloads, name, base)
                /\ executed' = Append(executed,
                       WorkloadStep(name, executables_, executable, input, inputs_, tags, FALSE))
           ELSE /\ status' = status
                /\ workloads' = Put(workloads, name,
                       [base EXCEPT !.executables = all_execs.val,
                                    !.inputs = WorkloadInputs(input, inputs_),
                                    !.tags = IF Truthy(tags) THEN tags.items ELSE @])
                /\ executed' = Append(executed,
                       WorkloadStep(name, executables_, executable, input, inputs_, tags, TRUE))
    /\ UNCHANGED <<executables, inputs, workload_variables, environment_variables,
                   phase_definitions>>
    /\ UNCHANGED typeVars

-----------------------------------------------------------------------------
(* executable, input_file                                                  *)

ExecutableStep(name, template, use_mpi, variables, redirect, output_capture) ==
    [directive |-> "executable", name |-> name, template |-> template,
     use_mpi |-> use_mpi, variables |-> variables, redirect |-> redirect,
     output_capture |-> output_capture, ok |-> TRUE]

\* The variables of an Executable record that was given none.
DefaultVariables == EmptyDict

\* CommandExecutable(name=, template=, use_mpi=, redirect=, output_capture=):
\* the call passes no variables, so the record holds the default.
CommandExecutable(name, template, use_mpi, redirect, output_capture) ==
    [name |-> name, template |-> template, use_mpi |-> use_mpi,
     redirect |-> redirect, output_capture |-> output_capture,
     variables |-> DefaultVariables]

\* The closure of line 120; it writes app.executables only.
ExecuteExecutableMutant(name, template, use_mpi, variables, redirect, output_capture) ==
    /\ status = "composing"
    /\ Len(executed) < MaxSteps
    /\ inputs' = Put(inputs, name,
           CommandExecutable(name, template, use_mpi, redirect, output_capture))
    /\ executed' = Append(executed,
           ExecutableStep(name, template, use_mpi, variables, redirect, output_capture))
    /\ UNCHANGED <<workloads, executables, workload_variables, environment_variables,
                   phase_definitions, status>>
    /\ UNCHANGED typeVars
ExecuteExecutable(name, template, use_mpi, variables, redirect, output_capture) ==
    /\ status = "composing"
    /\ Len(executed) < MaxSteps
    /\ executables' = Put(executables, name,
           CommandExecutable(name, template, use_mpi, redirect, output_capture))
    /\ executed' = Append(executed,
           ExecutableStep(name, template, use_mpi, variables, redirect, output_capture))
    /\ UNCHANGED <<workloads, inputs, workload_variables, environment_variables,
                   phase_definitions, status>>
    /\ UNCHANGED typeVars

InputFileStep(name, url, description, target_dir, sha256, extension, expand) ==
    [directive |-> "input_file", name |-> name, url |-> url,
     description |-> description, target_dir |-> target_dir, sha256 |-> sha256,
     extension |-> extension, expand |-> expand, ok |-> TRUE]

ExecuteInputFile(name, url, description, target_dir, sha256, extension, expand) ==
    /\ status = "composing"
    /\ Len(executed) < MaxSteps
    /\ inputs' = Put(inputs, name,
           [url |-> url, description |-> description, target_dir |-> target_dir,
            sha256 |-> sha256, extension |-> extension, expand |-> expand])
    /\ executed' = Append(executed,
           InputFileStep(name, url, description, target_dir, sha256, extension, expand))
    /\ UNCHANGED <<workloads, executables, workload_variables, environment_variables,
                   phase_definitions, status>>
    /\ UNCHANGED typeVars

-----------------------------------------------------------------------------
(* workload_variable, environment_variable                                 *)

\* all_workloads = require_definition(workload, workloads, ...)
VariableWorkloads(workload, workloads_) == require_definition(workload, workloads_)

\* The entry lines 185-191 store: 'values' is added under "if values:".
VariableEntryMutant(default, description, values, expandable) ==
    [default |-> default, description |-> description, expandable |-> expandable,
     values |-> values.items]
VariableEntry(default, description, values, expandable) ==
    IF Truthy(values)
    THEN [default |-> default, description |-> description, expandable |-> expandable,
          values |-> values.items]
    ELSE [default |-> default, description |-> description, expandable |-> expandable]

\* for wl_name in all_workloads: create the workload's dictionary if absent,
\* then store the entry under d[wl_name][name].
RECURSIVE StoreForEachMutant(_, _, _, _)
StoreForEachMutant(d, wl_names, name, entry) ==
    IF wl_names = <<>> THEN d
    ELSE LET wl == Head(wl_names)
             own == IF wl \in DOMAIN d THEN d[wl] ELSE EmptyDict
             old == IF name \in DOMAIN own THEN own[name] ELSE entry
             upd == [k \in (DOMAIN old) \cup (DOMAIN entry) |->
                        IF k \in DOMAIN entry THEN entry[k] ELSE old[k]]
         IN  StoreForEachMutant(Put(d, wl, Put(own, name, upd)), Tail(wl_names), name, entry)
RECURSIVE StoreForEach(_, _, _, _)
StoreForEach(d, wl_names, name, entry) ==
    IF wl_names = <<>> THEN d
    ELSE LET wl == Head(wl_names)
             own == IF wl \in DOMAIN d THEN d[wl] ELSE EmptyDict
         IN  StoreForEach(Put(d, wl, Put(own, name, entry)), Tail(wl_names), name, entry)

WorkloadVariableStep(name, default, description, values, workload, workloads_, expandable, ok) ==
    [directive |-> "workload_variable", name |-> name, default |-> default,
     description |-> description, values |-> values, workload |-> workload,
     workloads |-> workloads_, expandable |-> expandable, ok |-> ok]

ExecuteWorkloadVariable(name, default, description, values, workload, workloads_, expandable) ==
    /\ status = "composing"
    /\ Len(executed) < MaxSteps
    /\ LET all_workloads == VariableWorkloads(workload, workloads_)
       IN  /\ status' = IF all_workloads.ok THEN status ELSE "failed"
           /\ workload_variables' =
                  IF all_workloads.ok
                  THEN StoreForEach(workload_variables, all_workloads.val, name,
                                    VariableEntry(default, description, values, expandable))
                  ELSE workload_variables
           /\ executed' = Append(executed,
                  WorkloadVariableStep(name, default, description, values, workload,
                                       workloads_, expandable, all_workloads.ok))
    /\ UNCHANGED <<workloads, executables, inputs, environment_variables, phase_definitions>>
    /\ UNCHANGED typeVars

\* all_workloads = require_definition(workload, workloads, ...)
EnvVarWorkloads(workload, workloads_) == require_definition(workload, workloads_)

\* The entry lines 215-219 store.
EnvVarEntryMutant(value, description) ==
    [value |-> value, action |-> "append", description |-> description]
EnvVarEntry(value, description) ==
    [value |-> value, action |-> "set", description |-> description]

EnvironmentVariableStep(name, value, description, workload, workloads_, ok) ==
    [directive |-> "environment_variable", name |-> name, value |-> value,
     description |-> description, workload |-> workload, workloads |-> workloads_,
     ok |-> ok]

ExecuteEnvironmentVariable(name, value, description, workload, workloads_) ==
    /\ status = "composing"
    /\ Len(executed) < MaxSteps
    /\ LET all_workloads == EnvVarWorkloads(workload, workloads_)
       IN  /\ status' = IF all_workloads.ok THEN status ELSE "failed"
           /\ environment_variables' =
                  IF all_workloads.ok
                  THEN StoreForEach(environment_variables, all_workloads.val, name,
                                    EnvVarEntry(value, description))
                  ELSE environment_variables
           /\ executed' = Append(executed,
                  EnvironmentVariableStep(name, value, description, workload, workloads_,
                                          all_workloads.ok))
    /\ UNCHANGED <<workloads, executables, inputs, workload_variables, phase_definitions>>
    /\ UNCHANGED typeVars

-----------------------------------------------------------------------------
(* Application types and their builder steps.                              *)
(*                                                                         *)
(* A directive call in a class body creates a builder step and puts it on   *)
(* ApplicationMeta._directives_to_be_executed.  When the class is defined   *)
(* its steps are appended to the merged lists of its bases, and the list is *)
(* deduplicated by step identity.                                          *)

\* Bounds of the type level: builder steps created, types defined.
MaxDeclared == 3
MaxTypes == 3

\* The elements of a sequence.
Elems(q) == {q[i] : i \in 1..Len(q)}

\* ids with every repeated identity removed, first occurrence kept.  descs
\* gives the directive call of each identity; identities are compared, calls
\* are not.
RECURSIVE DedupeByValue(_, _)
DedupeByValue(descs, ids) ==
    IF ids = <<>> THEN <<>>
    ELSE LET front == DedupeByValue(descs, SubSeq(ids, 1, Len(ids) - 1))
             x == ids[Len(ids)]
         IN  IF \E j \in 1..Len(front) : descs[front[j]] = descs[x]
             THEN front ELSE Append(front, x)
Dedupe(descs, ids) == Unique(ids)

\* The merged lists of the bases, concatenated in the order of the bases.
RECURSIVE InheritedSteps(_, _)
InheritedSteps(ts, bases) ==
    IF bases = <<>> THEN <<>>
    ELSE ts[Head(bases)].merged \o InheritedSteps(ts, Tail(bases))

\* The merged step list of a type with these bases and own steps.
MergedStepsOwnFirst(descs, ts, bases, own) ==
    Dedupe(descs, own \o InheritedSteps(ts, bases))
MergedSteps(descs, ts, bases, own) ==
    Dedupe(descs, InheritedSteps(ts, bases) \o own)

\* The types after the definition of one more type.  The merged lists of
\* the types already defined stay as they are.
TypesAfterDefineInPlace(descs, ts, bases, own) ==
    Append([t \in 1..Len(ts) |->
               IF t \in Elems(bases)
               THEN [ts[t] EXCEPT !.merged = Dedupe(descs, @ \o own)]
               ELSE ts[t]],
           [bases |-> bases, own |-> own, merged |-> MergedSteps(descs, ts, bases, own)])
TypesAfterDefine(descs, ts, bases, own) ==
    Append(ts, [bases |-> bases, own |-> own,
                merged |-> MergedSteps(descs, ts, bases, own)])

\* The directive calls a class body makes.
Descriptors ==
    << [directive |-> "workload", name |-> "w1",
        executables |-> PyList(<<"e1", "e2">>), executable |-> PyNone,
        input |-> PyNone, inputs |-> PyList(<<"i1">>), tags |-> PyList(<<"t1">>)],
       [directive |-> "workload", name |-> "w1",
        executables |-> PyNone, executable |-> PyStr("e3"),
        input |-> PyNone, inputs |-> PyNone, tags |-> PyNone],
       [directive |-> "workload", name |-> "w1",
        executables |-> PyNone, executable |-> PyNone,
        input |-> PyNone, inputs |-> PyNone, tags |-> PyNone],
       [directive |-> "register_phase", name |-> "p", pipeline |-> PyStr("setup"),
        depends_on |-> PyList(<<"a">>)],
       [directive |-> "register_phase", name |-> "p", pipeline |-> PyStr("setup"),
        depends_on |-> PyList(<<"b", "a">>)],
       [directive |-> "workload_variable", name |-> "v", default |-> "1",
        description |-> "d", values |-> PyList(<<"x">>), workload |-> PyNone,
        workloads |-> PyList(<<"w1", "w2">>), expandable |-> TRUE],
       [directive |-> "workload_variable", name |-> "v", default |-> "2",
        description |-> "d", values |-> PyNone, workload |-> PyStr("w1"),
        workloads |-> PyNone, expandable |-> FALSE],
       [directive |-> "environment_variable", name |-> "E", value |-> "1",
        description |-> "d", workload |-> PyStr("w1"), workloads |-> PyNone],
       [directive |-> "executable", name |-> "e1", template |-> "{exec_name} {n}",
        use_mpi |-> FALSE, variables |-> [n |-> "4"], redirect |-> "{log_file}",
        output_capture |-> "STDERR"],
       [directive |-> "input_file", name |-> "i1", url |-> "http://host/i1.tar.gz",
        description |-> "d", target_dir |-> "{input_name}", sha256 |-> PyNone,
        extension |-> PyNone, expand |-> TRUE] >>

\* A directive call in the class body being read: a new step is created and
\* collected.
DeclareStep(k) ==
    /\ Len(steps) < MaxDeclared
    /\ steps' = Append(steps, Descriptors[k])
    /\ directives_to_be_executed' = Append(directives_to_be_executed, Len(steps) + 1)
    /\ UNCHANGED <<workloads, executables, inputs, workload_variables,
                   environment_variables, phase_definitions, status, executed,
                   types, instance_of, peer>>

\* The class body exposes again, before its own directive calls, a step
\* object that a type already holds.
ReExposeStep(id) ==
    /\ \E t \in 1..Len(types) : id \in Elems(types[t].merged)
    /\ directives_to_be_executed = <<>>
    /\ directives_to_be_executed' = Append(directives_to_be_executed, id)
    /\ UNCHANGED <<workloads, executables, inputs, workload_variables,
                   environment_variables, phase_definitions, status, executed,
                   steps, types, instance_of, peer>>

\* The base lists a new type may have: none, one, or two of the types defined.
BaseChoices ==
    {<<>>} \cup {<<a>> : a \in 1..Len(types)}
           \cup {q \in (1..Len(types)) \X (1..Len(types)) : q[1] # q[2]}

\* The class statement ends: the type is defined from the steps collected,
\* and the collection starts again from empty.
DefineType(bases) ==
    /\ Len(types) < MaxTypes
    /\ types' = TypesAfterDefine(steps, types, bases, directives_to_be_executed)
    /\ directives_to_be_executed' = <<>>
    /\ UNCHANGED <<workloads, executables, inputs, workload_variables,
                   environment_variables, phase_definitions, status, executed,
                   steps, instance_of, peer>>

-----------------------------------------------------------------------------
\* A new instance of type t: six empty dictionaries, nothing executed.
NewInstance(t) ==
    [type |-> t, workloads |-> EmptyDict, executables |-> EmptyDict,
     inputs |-> EmptyDict, workload_variables |-> EmptyDict,
     environment_variables |-> EmptyDict, phase_definitions |-> EmptyDict,
     status |-> "composing", executed |-> <<>>]

Init ==
    /\ workloads = EmptyDict
    /\ executables = EmptyDict
    /\ inputs = EmptyDict
    /\ workload_variables = EmptyDict
    /\ environment_variables = EmptyDict
    /\ phase_definitions = EmptyDict
    /\ status = "composing"
    /\ executed = <<>>
    /\ steps = <<>>
    /\ directives_to_be_executed = <<>>
    /\ types = <<>>
    /\ instance_of = 0
    /\ peer = NewInstance(0)

\* Arguments of the register_phase steps explored.
PhaseNames == {"p", "q"}
PipelineArgs == {PyNone, PyStr("setup"), PyStr("analyze"), PyStr("bogus")}
DependsOnArgs ==
    {PyList(<<>>), PyList(<<"a">>), PyList(<<"b">>), PyList(<<"a", "b">>),
     PyList(<<"a", "a">>), PyList(<<"b", "a", "b">>),
     PyTuple(<<"a">>), PyStr("not-a-list")}

NextPhase ==
    \E name \in PhaseNames, pipeline \in PipelineArgs, depends_on \in DependsOnArgs :
        ExecuteRegisterPhase(name, pipeline, depends_on)

SpecPhase == Init /\ [][NextPhase]_vars

\* Arguments of the workload steps explored.
WorkloadNames == {"w1", "w2"}
ExecutableArgs == {PyNone, PyStr("e3")}
ExecutablesArgs == {PyNone, PyList(<<>>), PyList(<<"e1", "e2">>)}
InputsArgs == {PyNone, PyList(<<"i1", "i2">>)}
TagsArgs == {PyNone, PyList(<<>>), PyList(<<"t1">>)}

NextWorkload ==
    \E name \in WorkloadNames, executables_ \in ExecutablesArgs,
       executable \in ExecutableArgs, inputs_ \in InputsArgs, tags \in TagsArgs :
        ExecuteWorkload(name, executables_, executable, PyNone, inputs_, tags)

SpecWorkload == Init /\ [][NextWorkload]_vars

\* Arguments of the workload_variable and environment_variable steps explored.
WorkloadArgs == {PyNone, PyStr("w1")}
WorkloadsArgs == {PyNone, PyList(<<>>), PyList(<<"w1", "w2">>)}
ValuesArgs == {PyNone, PyList(<<>>), PyList(<<"x">>)}

\* <<default, expandable>> and <<value, description>> pairs.
DefaultArgs == {<<"1", TRUE>>, <<"2", FALSE>>}
ValueArgs == {<<"1", "d1">>, <<"2", "d2">>}

NextVariables ==
    \/ \E name \in {"v", "u"}, de \in DefaultArgs, values \in ValuesArgs,
          workload \in WorkloadArgs, workloads_ \in WorkloadsArgs :
           ExecuteWorkloadVariable(name, de[1], "d", values, workload, workloads_, de[2])
    \/ \E vd \in ValueArgs, workload \in WorkloadArgs, workloads_ \in WorkloadsArgs :
           ExecuteEnvironmentVariable("E", vd[1], vd[2], workload, workloads_)

SpecVariables == Init /\ [][NextVariables]_vars

\* The class bodies make the same directive call again and again: every step
\* is a step of its own, whatever its arguments.
NextTypes ==
    \/ \E k \in {4} : DeclareStep(k)
    \/ \E id \in 1..Len(steps) : ReExposeStep(id)
    \/ \E bases \in BaseChoices : DefineType(bases)

SpecTypes == Init /\ [][NextTypes]_vars

\* The composition of an application that uses all six directives.
Next ==
    \/ \E executables_ \in ExecutablesArgs, executable \in ExecutableArgs,
          input \in {PyNone, PyStr("i1")} :
           ExecuteWorkload("w1", executables_, executable, input, PyList(<<"i2", "i1">>),
                           PyList(<<"t1">>))
    \/ \E use_mpi \in BOOLEAN, variables \in {EmptyDict, [n |-> "4"]} :
           ExecuteExecutable("e1", "{exec_name} {n}", use_mpi, variables, "{log_file}",
                             "STDERR")
    \/ \E sha256 \in {PyNone, PyStr("abc")} :
           ExecuteInputFile("i1", "http://host/i1.tar.gz", "d", "{input_name}", sha256,
                            PyNone, TRUE)
    \/ \E values \in {PyNone, PyList(<<"x">>)}, workload \in WorkloadArgs,
          workloads_ \in {PyNone, PyList(<<"w1", "w2">>)} :
           ExecuteWorkloadVariable("v", "1", "d", values, workload, workloads_, TRUE)
    \/ \E workload \in WorkloadArgs, workloads_ \in {PyNone, PyList(<<"w1", "w2">>)} :
           ExecuteEnvironmentVariable("E", "1", "d", workload, workloads_)
    \/ \E pipeline \in {PyStr("setup"), PyStr("bogus")},
          depends_on \in {PyList(<<"a">>), PyStr("not-a-list")} :
           ExecuteRegisterPhase("p", pipeline, depends_on)

Spec == Init /\ [][Next]_vars

-----------------------------------------------------------------------------
(* Construction of instances from defined types.  The closures take the     *)
(* instance as their argument app and write app's dictionaries; here each   *)
(* closure is an operator from the instance record to the instance record.  *)

\* _execute_workload(app)
ApplyWorkload(app, s) ==
    LET base == WorkloadBase(app.workloads, s.name)
        all_execs == WorkloadExecs(s.executable, s.executables)
        done == [base EXCEPT !.executables = all_execs.val,
                             !.inputs = WorkloadInputs(s.input, s.inputs),
                             !.tags = IF Truthy(s.tags) THEN s.tags.items ELSE @]
    IN  [app EXCEPT
            !.workloads = Put(@, s.name, IF all_execs.ok THEN done ELSE base),
            !.status = IF all_execs.ok THEN @ ELSE "failed",
            !.executed = Append(@, WorkloadStep(s.name, s.executables, s.executable,
                                                s.input, s.inputs, s.tags, all_execs.ok))]

\* _execute_executable(app)
ApplyExecutable(app, s) ==
    [app EXCEPT
        !.executables = Put(@, s.name, CommandExecutable(s.name, s.template, s.use_mpi,
                                                         s.redirect, s.output_capture)),
        !.executed = Append(@, ExecutableStep(s.name, s.template, s.use_mpi, s.variables,
                                              s.redirect, s.output_capture))]

\* _execute_input_file(app)
ApplyInputFile(app, s) ==
    [app EXCEPT
        !.inputs = Put(@, s.name,
            [url |-> s.url, description |-> s.description, target_dir |-> s.target_dir,
             sha256 |-> s.sha256, extension |-> s.extension, expand |-> s.expand]),
        !.executed = Append(@, InputFileStep(s.name, s.url, s.description, s.target_dir,
                                             s.sha256, s.extension, s.expand))]

\* _execute_workload_variable(app)
ApplyWorkloadVariable(app, s) ==
    LET all_workloads == VariableWorkloads(s.workload, s.workloads)
    IN  [app EXCEPT
            !.workload_variables =
                IF all_workloads.ok
                THEN StoreForEach(@, all_workloads.val, s.name,
                         VariableEntry(s.default, s.description, s.values, s.expandable))
                ELSE @,
            !.status = IF all_workloads.ok THEN @ ELSE "failed",
            !.executed = Append(@, WorkloadVariableStep(s.name, s.default, s.description,
                                    s.values, s.workload, s.workloads, s.expandable,
                                    all_workloads.ok))]

\* _execute_environment_variable(app)
ApplyEnvironmentVariable(app, s) ==
    LET all_workloads == EnvVarWorkloads(s.workload, s.workloads)
    IN  [app EXCEPT
            !.environment_variables =
                IF all_workloads.ok
                THEN StoreForEach(@, all_workloads.val, s.name,
                                  EnvVarEntry(s.value, s.description))
                ELSE @,
            !.status = IF all_workloads.ok THEN @ ELSE "failed",
            !.executed = Append(@, EnvironmentVariableStep(s.name, s.value, s.description,
                                    s.workload, s.workloads, all_workloads.ok))]

\* _execute_register_phase(app)
ApplyRegisterPhase(app, s) ==
    LET ok == ~(InvalidPipeline(s.pipeline) \/ IsNotList(s.depends_on))
    IN  [app EXCEPT
            !.phase_definitions =
                IF ok THEN RegisterInto(@, PipelineKey(s.pipeline), s.name, s.depends_on)
                ELSE @,
            !.status = IF ok THEN @ ELSE "failed",
            !.executed = Append(@, RegisterPhaseStep(s.name, s.pipeline, s.depends_on, ok))]

\* The engine calls the closure of step s with the instance.
Apply(app, s) ==
    CASE s.directive = "workload" -> ApplyWorkload(app, s)
      [] s.directive = "executable" -> ApplyExecutable(app, s)
      [] s.directive = "input_file" -> ApplyInputFile(app, s)
      [] s.directive = "workload_variable" -> ApplyWorkloadVariable(app, s)
      [] s.directive = "environment_variable" -> ApplyEnvironmentVariable(app, s)
      [] s.directive = "register_phase" -> ApplyRegisterPhase(app, s)

\* The step the engine executes next for an instance of type t that has
\* executed n steps.
NextStepOf(t, n) == steps[types[t].merged[n + 1]]

\* The engine executes the next step of the second instance.
PeerStepShared ==
    /\ peer.status = "composing"
    /\ Len(peer.executed) < MaxSteps
    /\ Len(peer.executed) < Len(types[peer.type].merged)
    /\ peer' = Apply(peer, NextStepOf(peer.type, Len(peer.executed)))
    /\ workloads' = peer'.workloads
    /\ executables' = peer'.executables
    /\ inputs' = peer'.inputs
    /\ workload_variables' = peer'.workload_variables
    /\ environment_variables' = peer'.environment_variables
    /\ phase_definitions' = peer'.phase_definitions
    /\ UNCHANGED <<status, executed, steps, directives_to_be_executed, types, instance_of>>
PeerStep ==
    /\ peer.status = "composing"
    /\ Len(peer.executed) < MaxSteps
    /\ Len(peer.executed) < Len(types[peer.type].merged)
    /\ peer' = Apply(peer, NextStepOf(peer.type, Len(peer.executed)))
    /\ UNCHANGED <<workloads, executables, inputs, workload_variables,
                   environment_variables, phase_definitions, status, executed,
                   steps, directives_to_be_executed, types, instance_of>>

\* The engine executes the next step of the first instance.
ComposeStep ==
    /\ instance_of \in 1..Len(types)
    /\ Len(executed) < Len(types[instance_of].merged)
    /\ LET s == NextStepOf(instance_of, Len(executed))
       IN  \/ /\ s.directive = "workload"
              /\ ExecuteWorkload(s.name, s.executables, s.executable, s.input, s.inputs,
                                 s.tags)
           \/ /\ s.directive = "executable"
              /\ ExecuteExecutable(s.name, s.template, s.use_mpi, s.variables, s.redirect,
                                   s.output_capture)
           \/ /\ s.directive = "input_file"
              /\ ExecuteInputFile(s.name, s.url, s.description, s.target_dir, s.sha256,
                                  s.extension, s.expand)
           \/ /\ s.directive = "workload_variable"
              /\ ExecuteWorkloadVariable(s.name, s.default, s.description, s.values,
                                         s.workload, s.workloads, s.expandable)
           \/ /\ s.directive = "environment_variable"
              /\ ExecuteEnvironmentVariable(s.name, s.value, s.description, s.workload,
                                            s.workloads)
           \/ /\ s.directive = "register_phase"
              /\ ExecuteRegisterPhase(s.name, s.pipeline, s.depends_on)

\* The directive calls of one class body, by their position in Descriptors.
OwnChoices ==
    {<<>>} \cup {<<k>> : k \in 1..Len(Descriptors)} \cup {<<1, 2>>, <<2, 1>>, <<6, 7>>}

\* The steps created by the calls of a class body.
StepsOf(calls) == [i \in 1..Len(calls) |-> Descriptors[calls[i]]]

\* The identities of n steps created after the first `from` steps.
Ids(from, n) == [i \in 1..n |-> from + i]

\* A chain of three application types, each the base of the next, has been
\* defined; two instances are under construction, of the same type or of
\* related types.
InitCompose ==
    /\ workloads = EmptyDict
    /\ executables = EmptyDict
    /\ inputs = EmptyDict
    /\ workload_variables = EmptyDict
    /\ environment_variables = EmptyDict
    /\ phase_definitions = EmptyDict
    /\ status = "composing"
    /\ executed = <<>>
    /\ directives_to_be_executed = <<>>
    /\ \E o1, o2, o3 \in OwnChoices :
          /\ steps = StepsOf(o1 \o o2 \o o3)
          /\ types =
                 LET t1 == TypesAfterDefine(steps, <<>>, <<>>, Ids(0, Len(o1)))
                     t2 == TypesAfterDefine(steps, t1, <<1>>, Ids(Len(o1), Len(o2)))
                 IN  TypesAfterDefine(steps, t2, <<2>>, Ids(Len(o1) + Len(o2), Len(o3)))
    /\ instance_of \in 1..Len(types)
    /\ \E t \in 1..Len(types) : peer = NewInstance(t)

NextCompose ==
    \/ ComposeStep
    \/ PeerStep

SpecCompose == InitCompose /\ [][NextCompose]_vars

-----------------------------------------------------------------------------
(* Vocabulary of the properties.                                           *)

\* The step executed last.
LastStep == executed[Len(executed)]

\* A step has just been executed.
Stepped == Len(executed') = Len(executed) + 1

IsPrefix(s, t) == Len(s) <= Len(t) /\ \A i \in 1..Len(s) : s[i] = t[i]

NoRepeats(s) == \A i, j \in 1..Len(s) : s[i] = s[j] => i = j

\* The positions of the successful register_phase steps for (pl, ph).
Registrations(pl, ph) ==
    {i \in 1..Len(executed) :
        /\ executed[i].directive = "register_phase"
        /\ executed[i].ok
        /\ executed[i].pipeline = PyStr(pl)
        /\ executed[i].name = ph}

\* The concatenation of the depends_on lists of the steps at positions 1..n
\* that are in the set idx.
RECURSIVE ConcatDeps(_, _)
ConcatDeps(idx, n) ==
    IF n = 0 THEN <<>>
    ELSE ConcatDeps(idx, n - 1) \o (IF n \in idx THEN executed[n].depends_on.items ELSE <<>>)

\* Index of the first occurrence of x in c.
FirstAt(c, x) == CHOOSE k \in 1..Len(c) : c[k] = x /\ \A m \in 1..(k - 1) : c[m] # x

\* r is c with every repeated element removed, first occurrence kept.
IsFirstOccurrences(r, c) ==
    /\ NoRepeats(r)
    /\ {r[i] : i \in 1..Len(r)} = {c[i] : i \in 1..Len(c)}
    /\ \A i, j \in 1..Len(r) : i < j => FirstAt(c, r[i]) < FirstAt(c, r[j])

AllPhaseKeys == {"setup", "analyze", "bogus", "None"}

-----------------------------------------------------------------------------
\* C1: a step never removes or moves a dependency: the list held for a
\* (pipeline, phase) pair before a step is a prefix of the list held after it.
C1_DependenciesOnlyGrow ==
    [][\A pl \in DOMAIN phase_definitions : \A ph \in DOMAIN phase_definitions[pl] :
          /\ pl \in DOMAIN phase_definitions'
          /\ ph \in DOMAIN phase_definitions'[pl]
          /\ IsPrefix(phase_definitions[pl][ph], phase_definitions'[pl][ph])]_vars

\* A second registration of a pair has extended a list that was not empty.
C1_Witness ==
    \E pl \in DOMAIN phase_definitions : \E ph \in DOMAIN phase_definitions[pl] :
        /\ Len(phase_definitions[pl][ph]) >= 2
        /\ \E i, j \in Registrations(pl, ph) :
              /\ i < j
              /\ executed[i].depends_on.items # <<>>
              /\ \E k \in 1..Len(executed[j].depends_on.items) :
                    ~InList(executed[j].depends_on.items[k], executed[i].depends_on.items)

\* C2: no dependency list ever holds a name twice, also when one depends_on
\* argument holds the name several times.
C2_NoDuplicateDependency ==
    \A pl \in DOMAIN phase_definitions : \A ph \in DOMAIN phase_definitions[pl] :
        NoRepeats(phase_definitions[pl][ph])

\* A step whose depends_on repeats a name has registered.
C2_Witness ==
    /\ executed # <<>>
    /\ LastStep.directive = "register_phase"
    /\ LastStep.ok
    /\ ~NoRepeats(LastStep.depends_on.items)
    /\ phase_definitions[PipelineKey(LastStep.pipeline)][LastStep.name] # <<>>

\* C3: the list of a (pipeline, phase) pair is the concatenation of the
\* depends_on lists of its successful registrations, in execution order, with
\* repeated names removed and the first occurrence kept; the pair has an entry
\* exactly when it has a registration, so a registration with an empty
\* depends_on creates the phase with an empty list; ["a"] then ["a","b"]
\* gives ["a","b"].
C3_ListIsDedupedConcatenation ==
    \A pl \in AllPhaseKeys : \A ph \in {"p", "q"} :
        LET regs == Registrations(pl, ph)
            held == pl \in DOMAIN phase_definitions /\ ph \in DOMAIN phase_definitions[pl]
        IN  /\ held <=> regs # {}
            /\ held => IsFirstOccurrences(phase_definitions[pl][ph],
                                          ConcatDeps(regs, Len(executed)))
            /\ ConcatDeps(regs, Len(executed)) = <<"a", "a", "b">>
                   => phase_definitions[pl][ph] = <<"a", "b">>
            /\ (regs # {} /\ ConcatDeps(regs, Len(executed)) = <<>>)
                   => phase_definitions[pl][ph] = <<>>

\* depends_on=["a"] then depends_on=["a","b"] for the same pair.
C3_Witness ==
    \E pl \in DOMAIN phase_definitions : \E ph \in DOMAIN phase_definitions[pl] :
        \E i, j \in Registrations(pl, ph) :
            /\ i < j
            /\ Cardinality(Registrations(pl, ph)) = 2
            /\ executed[i].depends_on = PyList(<<"a">>)
            /\ executed[j].depends_on = PyList(<<"a", "b">>)

\* C4: a register_phase step whose pipeline is not recognized (or omitted)
\* fails and leaves phase_definitions as it was; the keys of
\* phase_definitions are recognized pipelines.
C4_UnrecognizedPipelineRejected ==
    /\ [](DOMAIN phase_definitions \subseteq RecognizedPipelines)
    /\ [][(/\ Stepped
           /\ executed'[Len(executed')].directive = "register_phase"
           /\ executed'[Len(executed')].pipeline \notin
                  {PyStr(pl) : pl \in RecognizedPipelines})
          => (/\ status' = "failed"
              /\ ~executed'[Len(executed')].ok
              /\ phase_definitions' = phase_definitions)]_vars

\* A step with an omitted pipeline has failed after an earlier registration.
C4_Witness ==
    /\ status = "failed"
    /\ LastStep.directive = "register_phase"
    /\ LastStep.pipeline = PyNone
    /\ LastStep.depends_on.kind = "list"
    /\ phase_definitions # EmptyDict

\* The types the claim counts as sequence types: the string of its example is
\* not one.
IsSequenceType(v) == v.kind \in {"list", "tuple"}

\* The step just executed was a register_phase step with a recognized pipeline.
RecognizedRegistration ==
    /\ Stepped
    /\ executed'[Len(executed')].directive = "register_phase"
    /\ executed'[Len(executed')].pipeline \in {PyStr(pl) : pl \in RecognizedPipelines}

\* C5 as stated: with a recognized pipeline the step fails exactly when
\* depends_on is not a sequence type, and a failure changes nothing.
C5_FailsIffNotSequence ==
    [][RecognizedRegistration
          => /\ (status' = "failed") <=> ~IsSequenceType(executed'[Len(executed')].depends_on)
             /\ status' = "failed" => phase_definitions' = phase_definitions]_vars

\* C5 amended: with a recognized pipeline the step fails exactly when
\* depends_on is not a list (a tuple is rejected like a string), and a failure
\* changes nothing.
C5_FailsIffNotList ==
    [][RecognizedRegistration
          => /\ (status' = "failed") <=> executed'[Len(executed')].depends_on.kind # "list"
             /\ ~executed'[Len(executed')].ok <=> status' = "failed"
             /\ status' = "failed" => phase_definitions' = phase_definitions]_vars

\* A tuple given for a recognized pipeline has been rejected after an earlier
\* registration.
C5_Witness ==
    /\ status = "failed"
    /\ LastStep.directive = "register_phase"
    /\ LastStep.pipeline = PyStr("setup")
    /\ LastStep.depends_on.kind = "tuple"
    /\ phase_definitions # EmptyDict

-----------------------------------------------------------------------------
\* The positions of the workload steps that named n.
WorkloadStepsFor(n) ==
    {i \in 1..Len(executed) :
        executed[i].directive = "workload" /\ executed[i].name = n}

Last(idx) == CHOOSE i \in idx : \A j \in idx : j <= i

\* C6: while every step has succeeded, workloads[n] is the record of the last
\* workload step that named n, and of that step alone: its executables are the
\* names of that step's executable/executables, its inputs those of its
\* input/inputs, its tags that step's tags; a step giving only executable="e3"
\* leaves executables = ["e3"] with no inputs and no tags.
C6_LastWorkloadWins ==
    status = "composing" =>
        \A n \in {"w1", "w2"} :
            /\ n \in DOMAIN workloads <=> WorkloadStepsFor(n) # {}
            /\ WorkloadStepsFor(n) # {} =>
                  LET s == executed[Last(WorkloadStepsFor(n))]
                      w == workloads[n]
                  IN  /\ DOMAIN w = {"executables", "inputs", "tags"}
                      /\ IsFirstOccurrences(w.executables,
                                            AsNames(s.executable) \o AsNames(s.executables))
                      /\ IsFirstOccurrences(w.inputs, AsNames(s.input) \o AsNames(s.inputs))
                      /\ w.tags = AsNames(s.tags)
                      /\ (/\ s.executable = PyStr("e3")
                          /\ s.executables = PyNone
                          /\ s.input = PyNone
                          /\ s.inputs = PyNone
                          /\ s.tags = PyNone)
                         => w = [executables |-> <<"e3">>, inputs |-> <<>>, tags |-> <<>>]

\* workload("w", executables=["e1","e2"], inputs=..., tags=...) and later
\* workload("w", executable="e3").
C6_Witness ==
    /\ status = "composing"
    /\ \E n \in DOMAIN workloads : \E i, j \in WorkloadStepsFor(n) :
          /\ i < j
          /\ j = Last(WorkloadStepsFor(n))
          /\ executed[i].executables = PyList(<<"e1", "e2">>)
          /\ executed[i].inputs = PyList(<<"i1", "i2">>)
          /\ executed[i].tags = PyList(<<"t1">>)
          /\ executed[j].executable = PyStr("e3")
          /\ executed[j].executables = PyNone
          /\ executed[j].inputs = PyNone
          /\ executed[j].tags = PyNone

\* The directives with a required singular/plural pair.
HasRequiredPair(s) ==
    s.directive \in {"workload", "workload_variable", "environment_variable"}

\* The singular and the plural argument of the required pair of step s.
Singular(s) == IF s.directive = "workload" THEN s.executable ELSE s.workload
Plural(s) == IF s.directive = "workload" THEN s.executables ELSE s.workloads

\* Step i raised a definition error: it is the last step executed and the
\* composition has failed.
Raised(i) == ~executed[i].ok /\ i = Len(executed) /\ status = "failed"

\* C7: a workload step given neither executable nor executables, or a pair
\* that names no executable, raises a definition error when executed; so do a
\* workload_variable and an environment_variable step given neither workload
\* nor workloads.
C7_MissingPairRejected ==
    \A i \in 1..Len(executed) :
        LET s == executed[i]
        IN  /\ (s.directive = "workload"
                   /\ AsNames(s.executable) \o AsNames(s.executables) = <<>>)
               => Raised(i)
            /\ (s.directive \in {"workload_variable", "environment_variable"}
                   /\ s.workload = PyNone /\ s.workloads = PyNone)
               => Raised(i)

\* A workload step given neither argument has been executed after other steps.
C7_Witness ==
    /\ Len(executed) >= 2
    /\ LastStep.directive = "workload"
    /\ LastStep.executable = PyNone
    /\ LastStep.executables = PyNone
    /\ \E i \in 1..Len(executed) : executed[i].directive = "workload_variable"

\* C8 as stated: every record of the workloads map has a non-empty executables
\* sequence, whether the steps executed succeeded or failed.
C8_ExecutablesNeverEmpty ==
    \A n \in DOMAIN workloads : workloads[n].executables # <<>>

\* C9: a step of a directive with a required singular/plural pair raises a
\* definition error when both members of the pair are supplied.
C9_BothOfPairRejected ==
    \A i \in 1..Len(executed) :
        LET s == executed[i]
        IN  (HasRequiredPair(s) /\ Singular(s) # PyNone /\ Plural(s) # PyNone)
                => Raised(i)

\* A workload step given both executable and executables has been executed.
C9_Witness ==
    /\ Len(executed) >= 2
    /\ LastStep.directive = "workload"
    /\ LastStep.executable = PyStr("e3")
    /\ LastStep.executables = PyList(<<"e1", "e2">>)

\* The entries the last step wrote: one per workload it named, each with the
\* step's default, description and expandable, the variable map of the
\* workload created where needed.  The entry is to hold a values field (then
\* with the step's values) when values was supplied and, unless emptyCounts,
\* is not empty.
EntriesOfLastStep(emptyCounts) ==
    (executed # <<>> /\ LastStep.directive = "workload_variable" /\ LastStep.ok) =>
        LET s == LastStep
            names == AsNames(s.workload) \o AsNames(s.workloads)
        IN  /\ names # <<>>
            /\ \A k \in 1..Len(names) :
                  /\ names[k] \in DOMAIN workload_variables
                  /\ s.name \in DOMAIN workload_variables[names[k]]
                  /\ LET e == workload_variables[names[k]][s.name]
                     IN  /\ {"default", "description", "expandable"} \subseteq DOMAIN e
                         /\ DOMAIN e \subseteq {"default", "description", "expandable", "values"}
                         /\ e.default = s.default
                         /\ e.description = s.description
                         /\ e.expandable = s.expandable
                         /\ "values" \in DOMAIN e <=>
                                (s.values # PyNone /\ (emptyCounts \/ s.values.items # <<>>))
                         /\ "values" \in DOMAIN e => e.values = s.values.items
                         /\ e = workload_variables[names[1]][s.name]

\* C10 as stated: the entry holds a values field exactly when a values
\* argument was supplied.
C10_ValuesIffSupplied == EntriesOfLastStep(TRUE)

\* C10 amended: the entry holds a values field exactly when a non-empty values
\* argument was supplied (values=[] adds none).
C10_ValuesIffNonEmpty == EntriesOfLastStep(FALSE)

\* A first step naming two workloads, given values=[], has created both maps.
C10_Witness ==
    /\ Len(executed) = 1
    /\ LastStep.directive = "workload_variable"
    /\ LastStep.ok
    /\ LastStep.workloads = PyList(<<"w1", "w2">>)
    /\ LastStep.values = PyList(<<>>)
    /\ DOMAIN workload_variables = {"w1", "w2"}

-----------------------------------------------------------------------------
\* The positions of the executable steps that named n.
ExecutableStepsFor(n) ==
    {i \in 1..Len(executed) :
        executed[i].directive = "executable" /\ executed[i].name = n}

\* C11 as stated: the record stored under executables[n] carries every
\* argument of the executable step that wrote it: name, template, use_mpi,
\* redirect, output_capture and the variables mapping.
C11_ExecutableRecordVerbatim ==
    \A n \in DOMAIN executables :
        /\ ExecutableStepsFor(n) # {}
        /\ LET s == executed[Last(ExecutableStepsFor(n))]
               e == executables[n]
           IN  /\ e.name = s.name
               /\ e.template = s.template
               /\ e.use_mpi = s.use_mpi
               /\ e.redirect = s.redirect
               /\ e.output_capture = s.output_capture
               /\ e.variables = s.variables

\* The workloads step s names through its workload/workloads pair.
NamedWorkloads(s) == AsNames(s.workload) \o AsNames(s.workloads)

\* The positions of the successful environment_variable steps that wrote
\* environment_variables[w][n].
EnvVarStepsFor(w, n) ==
    {i \in 1..Len(executed) :
        /\ executed[i].directive = "environment_variable"
        /\ executed[i].ok
        /\ executed[i].name = n
        /\ InList(w, NamedWorkloads(executed[i]))}

\* C17: every entry of environment_variables[w][n] has action "set" and the
\* value and description of the last step that wrote it, and every workload
\* named by a successful environment_variable step holds an entry for it.
C17_EnvironmentVariablesAreSet ==
    /\ \A w \in DOMAIN environment_variables : \A n \in DOMAIN environment_variables[w] :
          /\ EnvVarStepsFor(w, n) # {}
          /\ LET s == executed[Last(EnvVarStepsFor(w, n))]
                 e == environment_variables[w][n]
             IN  /\ DOMAIN e = {"value", "action", "description"}
                 /\ e.action = "set"
                 /\ e.value = s.value
                 /\ e.description = s.description
    /\ \A i \in 1..Len(executed) :
          (executed[i].directive = "environment_variable" /\ executed[i].ok) =>
              \A k \in 1..Len(NamedWorkloads(executed[i])) :
                  /\ NamedWorkloads(executed[i])[k] \in DOMAIN environment_variables
                  /\ executed[i].name \in
                         DOMAIN environment_variables[NamedWorkloads(executed[i])[k]]

\* A step for two workloads, then a step with another value for one of them.
C17_Witness ==
    /\ "w1" \in DOMAIN environment_variables
    /\ "w2" \in DOMAIN environment_variables
    /\ "E" \in DOMAIN environment_variables["w1"]
    /\ "E" \in DOMAIN environment_variables["w2"]
    /\ environment_variables["w1"]["E"].value = "2"
    /\ environment_variables["w2"]["E"].value = "1"
    /\ Cardinality(EnvVarStepsFor("w1", "E")) = 2

\* C18: a step changes no state map but the one of its directive, whether it
\* succeeds or fails.
C18_StepWritesOwnMapOnly ==
    [][Stepped =>
          LET d == executed'[Len(executed')].directive
          IN  /\ d # "workload" => workloads' = workloads
              /\ d # "executable" => executables' = executables
              /\ d # "input_file" => inputs' = inputs
              /\ d # "workload_variable" => workload_variables' = workload_variables
              /\ d # "environment_variable" => environment_variables' = environment_variables
              /\ d # "register_phase" => phase_definitions' = phase_definitions]_vars

\* A workload step has failed, changing workloads, after an executable step.
C18_Witness ==
    /\ status = "failed"
    /\ LastStep.directive = "workload"
    /\ "w1" \in DOMAIN workloads
    /\ executables # EmptyDict
    /\ \E i \in 1..Len(executed) : executed[i].directive = "register_phase"

\* C19: a successful workload_variable step replaces the entry of its name
\* under each workload it names with an entry made of its own arguments alone
\* (a values field of an earlier step survives only if the step gives values),
\* and leaves every other entry, of another workload or another name, as it
\* was.
C19_EntriesAreIndependent ==
    [][(/\ Stepped
        /\ executed'[Len(executed')].directive = "workload_variable"
        /\ executed'[Len(executed')].ok)
       => LET s == executed'[Len(executed')]
              names == NamedWorkloads(s)
          IN  /\ \A w \in DOMAIN workload_variables :
                    /\ w \in DOMAIN workload_variables'
                    /\ \A n \in DOMAIN workload_variables[w] :
                          /\ n \in DOMAIN workload_variables'[w]
                          /\ ~(InList(w, names) /\ n = s.name)
                                => workload_variables'[w][n] = workload_variables[w][n]
              /\ \A k \in 1..Len(names) :
                    LET e == workload_variables'[names[k]][s.name]
                    IN  /\ DOMAIN e = {"default", "description", "expandable"}
                                         \cup (IF s.values.items # <<>> THEN {"values"} ELSE {})
                        /\ e.default = s.default
                        /\ e.description = s.description
                        /\ e.expandable = s.expandable
                        /\ "values" \in DOMAIN e => e.values = s.values.items]_vars

\* workload_variable(v, values=["x"], workloads=[w1,w2]), then
\* workload_variable(v, workload=w1) without values.
C19_Witness ==
    /\ Len(executed) >= 2
    /\ \E i \in 1..(Len(executed) - 1) :
          /\ executed[i].directive = "workload_variable"
          /\ executed[i].name = "v"
          /\ executed[i].workloads = PyList(<<"w1", "w2">>)
          /\ executed[i].values = PyList(<<"x">>)
          /\ executed[i].ok
    /\ LastStep.directive = "workload_variable"
    /\ LastStep.name = "v"
    /\ LastStep.workload = PyStr("w1")
    /\ LastStep.values = PyNone
    /\ LastStep.ok
    /\ "values" \notin DOMAIN workload_variables["w1"]["v"]
    /\ "values" \in DOMAIN workload_variables["w2"]["v"]

\* The steps of the own list of type t that none of its bases holds.
FreshSteps(t) ==
    Elems(types[t].own) \ UNION {Elems(types[b].merged) : b \in Elems(types[t].bases)}

\* C13: the merged list of a type holds no step identity twice, whether the
\* step is inherited along several paths or exposed again by a descendant; it
\* holds every step of its bases and every own step, so two distinct steps of
\* identical arguments both remain; for a chain of three types that declare N
\* steps each it has 3N entries.
C13_MergedListHasEachStepOnce ==
    \A t \in 1..Len(types) :
        LET ty == types[t]
        IN  /\ NoRepeats(ty.merged)
            /\ Elems(ty.merged) =
                   Elems(ty.own) \cup UNION {Elems(types[b].merged) : b \in Elems(ty.bases)}
            /\ \A i, j \in Elems(ty.own) :
                   (i # j /\ steps[i] = steps[j]) => (i \in Elems(ty.merged) /\ j \in Elems(ty.merged))
            /\ (/\ Len(ty.bases) = 1
                /\ Len(types[ty.bases[1]].bases) = 1
                /\ types[types[ty.bases[1]].bases[1]].bases = <<>>)
               => LET b == ty.bases[1]
                      a == types[b].bases[1]
                      N == Cardinality(FreshSteps(t))
                  IN  (Cardinality(FreshSteps(a)) = N /\ Cardinality(FreshSteps(b)) = N)
                          => Len(ty.merged) = 3 * N

\* A type inherits a step along two paths and declares two steps of identical
\* arguments.
C13_Witness ==
    \E t \in 1..Len(types) :
        /\ Len(types[t].bases) = 2
        /\ types[t].bases[2] \in Elems(types[types[t].bases[1]].bases)
        /\ types[types[t].bases[2]].merged # <<>>
        /\ \E i, j \in Elems(types[t].own) : i # j /\ steps[i] = steps[j]

\* The six state maps of the instance.
StateMaps ==
    <<workloads, executables, inputs, workload_variables, environment_variables,
      phase_definitions>>

\* C14 as stated: a step that fails leaves the state maps as the steps before
\* it left them, and once a step has failed no further step is executed, the
\* construction stays failed and the state maps never change again.
C14_FailureLeavesEarlierEffectsOnly ==
    [][/\ (Stepped /\ status' = "failed") => StateMaps' = StateMaps
       /\ status = "failed" =>
              (executed' = executed /\ status' = "failed" /\ StateMaps' = StateMaps)]_vars

\* The first instance, as a record like the second.
ThisInstance ==
    [type |-> instance_of, workloads |-> workloads, executables |-> executables,
     inputs |-> inputs, workload_variables |-> workload_variables,
     environment_variables |-> environment_variables,
     phase_definitions |-> phase_definitions, status |-> status, executed |-> executed]

\* The two instances under construction.
Instances == {ThisInstance, peer}

\* An instance of type t constructed alone, after the engine has gone n steps
\* down the merged list of t or has stopped at a failure before that.
RECURSIVE Alone(_, _)
Alone(t, n) ==
    IF n = 0 THEN NewInstance(t)
    ELSE LET before == Alone(t, n - 1)
         IN  IF before.status = "failed" THEN before
             ELSE Apply(before, NextStepOf(t, n - 1))

\* The directive call a record of the history stands for.
CallOf(s) == [f \in (DOMAIN s) \ {"ok"} |-> s[f]]

\* The types t descends from, t included.
RECURSIVE Ancestry(_)
Ancestry(t) == {t} \cup UNION {Ancestry(b) : b \in Elems(types[t].bases)}

\* The positions, among the first n of the merged list of type t, of the
\* steps of directive d that write key name.
WritersOf(t, n, d, name) ==
    {k \in 1..n : /\ steps[types[t].merged[k]].directive = d
                  /\ steps[types[t].merged[k]].name = name}

\* The greatest element of a non-empty set of positions.
Latest(idx) == CHOOSE k \in idx : \A j \in idx : j <= k

\* C12: the steps an instance has executed are the first steps of its type's
\* merged list, in the order of the list; the merged list of a type is the
\* merged list of its base followed by its own steps in the order they were
\* declared; and while no step has failed, the record of a workload, of an
\* executable, of an input file and of a workload variable is the one written
\* by the last step executed, in that order, that names it.
C12_DeclarationOrderLaterWins ==
    /\ \A t \in 1..Len(types) :
          types[t].merged = InheritedSteps(types, types[t].bases) \o types[t].own
    /\ \A app \in Instances :
          /\ Len(app.executed) <= Len(types[app.type].merged)
          /\ \A k \in 1..Len(app.executed) :
                CallOf(app.executed[k]) = steps[types[app.type].merged[k]]
          /\ app.status = "composing" =>
                /\ \A n \in DOMAIN app.workloads :
                      LET w == WritersOf(app.type, Len(app.executed), "workload", n)
                      IN  /\ w # {}
                          /\ app.workloads[n] =
                                 ApplyWorkload(NewInstance(app.type),
                                     steps[types[app.type].merged[Latest(w)]]).workloads[n]
                /\ \A n \in DOMAIN app.executables :
                      LET w == WritersOf(app.type, Len(app.executed), "executable", n)
                      IN  /\ w # {}
                          /\ app.executables[n] =
                                 ApplyExecutable(NewInstance(app.type),
                                     steps[types[app.type].merged[Latest(w)]]).executables[n]
                /\ \A n \in DOMAIN app.inputs :
                      LET w == WritersOf(app.type, Len(app.executed), "input_file", n)
                      IN  /\ w # {}
                          /\ app.inputs[n] =
                                 ApplyInputFile(NewInstance(app.type),
                                     steps[types[app.type].merged[Latest(w)]]).inputs[n]
                /\ \A wl \in DOMAIN app.workload_variables :
                      \A n \in DOMAIN app.workload_variables[wl] :
                          LET w == {k \in WritersOf(app.type, Len(app.executed),
                                                    "workload_variable", n) :
                                       InList(wl, NamedWorkloads(app.executed[k]))}
                          IN  /\ w # {}
                              /\ app.workload_variables[wl][n] =
                                     ApplyWorkloadVariable(NewInstance(app.type),
                                         steps[types[app.type].merged[Latest(w)]]
                                     ).workload_variables[wl][n]

\* An instance of the last type of the chain is complete: an ancestor defined
\* workload w1 with two executables, the descendant defined it again with e3,
\* and the descendant's definition is the one left.
C12_Witness ==
    /\ instance_of = 3
    /\ status = "composing"
    /\ Len(executed) = Len(types[3].merged)
    /\ Len(executed) = 2
    /\ types[3].own = <<2>>
    /\ steps[1] = Descriptors[1]
    /\ steps[2] = Descriptors[2]
    /\ workloads["w1"].executables = <<"e3">>

\* C15: at every point of every interleaving of the steps of two instances,
\* each instance is in the state it would be in had it been constructed
\* alone up to the same step, so when both are complete each has the state
\* maps of a construction alone; and no step of either changes the types,
\* their merged lists or the steps.
C15_InstancesAreIndependent ==
    /\ [](ThisInstance = Alone(instance_of, Len(executed)))
    /\ [](peer = Alone(peer.type, Len(peer.executed)))
    /\ [][types' = types /\ steps' = steps]_vars

\* Two instances of related types have each executed steps that write the
\* same workload, and they differ.
C15_Witness ==
    /\ instance_of # peer.type
    /\ Len(executed) >= 1
    /\ Len(peer.executed) >= 2
    /\ "w1" \in DOMAIN workloads
    /\ "w1" \in DOMAIN peer.workloads
    /\ workloads # peer.workloads

\* C16: an instance of a type whose whole ancestry declares no directive call
\* has nothing to execute: its construction is complete, it never fails, and
\* its six dictionaries are empty, whatever other types and instances do.
C16_NoDirectivesEmptyMaps ==
    \A app \in Instances :
        (\A a \in Ancestry(app.type) : types[a].own = <<>>)
            => /\ types[app.type].merged = <<>>
               /\ app = NewInstance(app.type)

\* The first instance is of a type that declares nothing and inherits
\* nothing, a descendant of that type declares steps, and an instance of the
\* descendant has executed them.
C16_Witness ==
    /\ instance_of = 2
    /\ types[1].own = <<>>
    /\ types[2].own = <<>>
    /\ peer.type = 3
    /\ Len(peer.executed) = 2
    /\ ThisInstance = NewInstance(2)

====
